---- MODULE Spec2Model ----
(***************************************************************************)
(* Model of internal/api/stream.go: contentStreamer.content (one           *)
(* scheduling goroutine per eventGenerator, fan-in on a channel of         *)
(* capacity 1) and stream (the server-sent-events writer).                 *)
(*                                                                         *)
(* Go's select is modelled as the Go specification defines it: when more   *)
(* than one case can proceed, any one of them may be chosen.  A send on a  *)
(* full channel and a receive on an empty one are disabled actions.        *)
(***************************************************************************)
EXTENDS Integers, Sequences, FiniteSets, TLC

\* ---- bounds of the model ----
MaxProducers == 2      \* at most this many event generators in a session
MaxGen == 2            \* timer ticks observed per scheduling goroutine

\* ---- program constants ----
QueueCap == 1                          \* make(chan event, 1)
NavigationInterval == 5                \* navigationEventGenerator.RunEvery, seconds
StatusInternalServerError == 500       \* http.StatusInternalServerError

\* runEvery values a contentEventGenerator is constructed with (seconds);
\* 0 is the run-once sentinel.
ContentIntervals == {0, 1}

\* An eventGenerator: its variant and the value RunEvery() returns.
Generators ==
    [kind : {"content"}, runEvery : ContentIntervals]
        \cup [kind : {"navigation"}, runEvery : {NavigationInterval}]

RECURSIVE SeqsUpTo(_, _)
SeqsUpTo(S, n) ==
    IF n = 0 THEN {<<>>}
    ELSE LET shorter == SeqsUpTo(S, n - 1)
         IN  shorter \cup {Append(s, x) : s \in {t \in shorter : Len(t) = n - 1}, x \in S}

\* cs.eventGenerators: a nil slice, or a (possibly empty) slice of generators.
GeneratorSlices ==
    {[isNil |-> TRUE, list |-> <<>>]}
        \cup {[isNil |-> FALSE, list |-> l] : l \in SeqsUpTo(Generators, MaxProducers)}

VARIABLES
    eventGenerators,   \* cs.eventGenerators
    streamFnSet,       \* cs.streamFn != nil
    loggerSet,         \* cs.logger != nil
    flusherOK,         \* cs.w implements http.Flusher
    canceled,          \* ctx.Done() is closed
    pcMain,            \* position of content: "start", "stream", "close", "done"
    result,            \* value content returned ("none" while running, "nil", or an error)
    wg,                \* sync.WaitGroup counter
    ch,                \* buffered contents of ch
    closeCount,        \* number of close(ch) executed
    pc,                \* per scheduling goroutine: "select", "generating", "push", "terminated"
    timer,             \* per goroutine timer: "armed", "fired" (a value waits in timer.C), "idle"
    genCount,          \* per goroutine: calls of eg.Generate started
    failures,          \* per goroutine: calls of eg.Generate that returned an error
    held,              \* per goroutine: the event e it is about to send
    pcW,               \* position of stream: "notstarted", "loop", "returned"
    headerSets,        \* number of times the event-stream headers were set
    httpStatus,        \* status written by http.Error, 0 if none
    written,           \* events written to w, in order
    headers,           \* w.Header(): the set of <<key, value>> entries
    body,              \* chunks written to w, in order: <<prefix, text, suffix>>
    flushes,           \* number of flusher.Flush() calls
    pushed,            \* events whose send on ch completed, in order
    logged             \* number of cs.logger.Errorf calls

config == <<eventGenerators, streamFnSet, loggerSet, flusherOK>>
mainVars == <<pcMain, result, wg, closeCount>>
taskVars == <<pc, timer, genCount, failures, held>>
writerVars == <<pcW, headerSets, httpStatus, written, headers, body, flushes>>
vars == <<config, canceled, mainVars, ch, taskVars, writerVars, pushed, logged>>

Tasks == 1..Len(eventGenerators.list)

RunEvery(p) == eventGenerators.list[p].runEvery

\* The name Generate gives its event: "navigation" or the empty string.
EventName(p) == IF eventGenerators.list[p].kind = "navigation" THEN "navigation" ELSE ""

NoEvent == [src |-> 0, seq |-> 0, name |-> ""]

\* The n-th event generated by generator p.
NewEvent(p, n) == [src |-> p, seq |-> n, name |-> EventName(p)]

Init ==
    /\ eventGenerators \in GeneratorSlices
    /\ streamFnSet \in BOOLEAN
    /\ loggerSet \in BOOLEAN
    /\ flusherOK \in BOOLEAN
    /\ canceled = FALSE
    /\ pcMain = "start"
    /\ result = "none"
    /\ wg = 0
    /\ ch = <<>>
    /\ closeCount = 0
    /\ pc = [p \in Tasks |-> "notstarted"]
    /\ timer = [p \in Tasks |-> "idle"]
    /\ genCount = [p \in Tasks |-> 0]
    /\ failures = [p \in Tasks |-> 0]
    /\ held = [p \in Tasks |-> NoEvent]
    /\ pcW = "notstarted"
    /\ headerSets = 0
    /\ httpStatus = 0
    /\ written = <<>>
    /\ headers = {}
    /\ body = <<>>
    /\ flushes = 0
    /\ pushed = <<>>
    /\ logged = 0

\* The context is canceled (client disconnect, server shutdown).
Cancel ==
    /\ ~canceled
    /\ canceled' = TRUE
    /\ UNCHANGED <<config, mainVars, ch, taskVars, writerVars, pushed, logged>>

\* ---- contentStreamer.content ----

\* Configuration checks whose logger test is inverted (cs.logger != nil).
ConfigError_InvertedLoggerCheck ==
    IF eventGenerators.isNil THEN "event generators are not configured"
    ELSE IF ~streamFnSet THEN "stream function is not configured"
    ELSE IF loggerSet THEN "logger is not configured"
    ELSE "nil"

\* The three configuration checks, in the order of the code.
ConfigError ==
    IF eventGenerators.isNil THEN "event generators are not configured"
    ELSE IF ~streamFnSet THEN "stream function is not configured"
    ELSE IF ~loggerSet THEN "logger is not configured"
    ELSE "nil"

\* content up to the call of streamFn: validation, wg.Add, one goroutine per
\* generator, each with timer := time.NewTimer(0).
ContentStart ==
    /\ pcMain = "start"
    /\ IF ConfigError # "nil"
       THEN /\ pcMain' = "done"
            /\ result' = ConfigError
            /\ UNCHANGED <<wg, pc, timer>>
       ELSE /\ pcMain' = "stream"
            /\ wg' = Len(eventGenerators.list)
            /\ pc' = [p \in Tasks |-> "select"]
            /\ timer' = [p \in Tasks |-> "armed"]
            /\ UNCHANGED result
    /\ UNCHANGED <<config, canceled, closeCount, ch, genCount, failures, held, writerVars, pushed, logged>>

\* A wg.Wait() that does not wait for the counter to reach zero.
WaitReturns_NoWait(n) == TRUE

\* wg.Wait() returns when the counter is zero.
WaitReturns(n) == n = 0

\* streamFn has returned; content blocks in wg.Wait().
ContentWait ==
    /\ pcMain = "stream"
    /\ pcW = "returned"
    /\ WaitReturns(wg)
    /\ pcMain' = "close"
    /\ UNCHANGED <<config, canceled, result, wg, closeCount, ch, taskVars, writerVars, pushed, logged>>

\* close(ch); return nil
ContentClose ==
    /\ pcMain = "close"
    /\ closeCount' = closeCount + 1
    /\ pcMain' = "done"
    /\ result' = "nil"
    /\ UNCHANGED <<config, canceled, wg, ch, taskVars, writerVars, pushed, logged>>

\* ---- the scheduling goroutine of generator p ----

\* The runtime delivers the timer's tick on timer.C.
TimerFire(p) ==
    /\ timer[p] = "armed"
    /\ genCount[p] < MaxGen
    /\ timer' = [timer EXCEPT ![p] = "fired"]
    /\ UNCHANGED <<config, canceled, mainVars, ch, pc, genCount, failures, held, writerVars, pushed, logged>>

\* select, case <-ctx.Done(): isRunning = false; the loop ends, wg.Done() runs.
TaskCtxDone(p) ==
    /\ pc[p] = "select"
    /\ canceled
    /\ pc' = [pc EXCEPT ![p] = "terminated"]
    /\ wg' = wg - 1
    /\ UNCHANGED <<config, canceled, pcMain, result, closeCount, ch, timer, genCount, failures,
                   held, writerVars, pushed, logged>>

\* select, case <-timer.C: the tick is received and eg.Generate(ctx) is called.
TaskTimerC(p) ==
    /\ pc[p] = "select"
    /\ timer[p] = "fired"
    /\ timer' = [timer EXCEPT ![p] = "idle"]
    /\ genCount' = [genCount EXCEPT ![p] = @ + 1]
    /\ pc' = [pc EXCEPT ![p] = "generating"]
    /\ UNCHANGED <<config, canceled, mainVars, ch, failures, held, writerVars, pushed, logged>>

\* eg.Generate returned an event: the goroutine goes on to `ch <- e`.
GenerateOk(p) ==
    /\ pc[p] = "generating"
    /\ held' = [held EXCEPT ![p] = NewEvent(p, genCount[p])]
    /\ pc' = [pc EXCEPT ![p] = "push"]
    /\ UNCHANGED <<config, canceled, mainVars, ch, timer, genCount, failures, writerVars, pushed, logged>>

\* An error branch without its `break`: the error is logged and the goroutine
\* goes on to `ch <- e` with the zero event Generate returned.
GenerateErr_FallThrough(p) ==
    /\ pc[p] = "generating"
    /\ logged' = logged + 1
    /\ failures' = [failures EXCEPT ![p] = @ + 1]
    /\ held' = [held EXCEPT ![p] = NoEvent]
    /\ pc' = [pc EXCEPT ![p] = "push"]
    /\ UNCHANGED <<config, canceled, mainVars, ch, timer, genCount, writerVars, pushed>>

\* eg.Generate returned an error: it is logged and `break` leaves the select;
\* the for loop goes back to the select with the timer as it is.
GenerateErr(p) ==
    /\ pc[p] = "generating"
    /\ logged' = logged + 1
    /\ failures' = [failures EXCEPT ![p] = @ + 1]
    /\ pc' = [pc EXCEPT ![p] = "select"]
    /\ UNCHANGED <<config, canceled, mainVars, ch, timer, genCount, held, writerVars, pushed>>

\* A channel without a capacity limit: a send can always proceed.
CanSend_Unbounded(q) == TRUE

\* A send on the buffered channel can proceed while the buffer has room.
CanSend(q) == Len(q) < QueueCap

\* A send that gives up when the buffer is full
\* (select { case ch <- e: default: }): the event is discarded.
TaskPush_DropWhenFull(p) ==
    /\ pc[p] = "push"
    /\ IF CanSend(ch)
       THEN /\ ch' = Append(ch, held[p])
            /\ pushed' = Append(pushed, held[p])
       ELSE UNCHANGED <<ch, pushed>>
    /\ held' = [held EXCEPT ![p] = NoEvent]
    /\ IF RunEvery(p) = 0
       THEN /\ pc' = [pc EXCEPT ![p] = "terminated"]
            /\ wg' = wg - 1
            /\ UNCHANGED timer
       ELSE /\ pc' = [pc EXCEPT ![p] = "select"]
            /\ timer' = [timer EXCEPT ![p] = "armed"]
            /\ UNCHANGED wg
    /\ UNCHANGED <<config, canceled, pcMain, result, closeCount, genCount, failures, writerVars, logged>>

\* `ch <- e`, then nextTick := eg.RunEvery(): either the loop ends (and wg.Done()
\* runs) or timer.Reset(nextTick).
TaskPush(p) ==
    /\ pc[p] = "push"
    /\ CanSend(ch)
    /\ ch' = Append(ch, held[p])
    /\ pushed' = Append(pushed, held[p])
    /\ held' = [held EXCEPT ![p] = NoEvent]
    /\ IF RunEvery(p) = 0
       THEN /\ pc' = [pc EXCEPT ![p] = "terminated"]
            /\ wg' = wg - 1
            /\ UNCHANGED timer
       ELSE /\ pc' = [pc EXCEPT ![p] = "select"]
            /\ timer' = [timer EXCEPT ![p] = "armed"]
            /\ UNCHANGED wg
    /\ UNCHANGED <<config, canceled, pcMain, result, closeCount, genCount, failures, writerVars, logged>>

TaskNext(p) ==
    \/ TaskCtxDone(p)
    \/ TaskTimerC(p)
    \/ GenerateOk(p)
    \/ GenerateErr(p)
    \/ TaskPush(p)

\* ---- stream ----

\* w.Header().Set(k, v): the entry of key k is replaced.
SetHeader(h, k, v) == {x \in h : x[1] # k} \cup {<<k, v>>}

\* The four w.Header().Set calls of stream.
SetEventStreamHeaders(h) ==
    SetHeader(SetHeader(SetHeader(SetHeader(h,
        "Content-Type", "text/event-stream"),
        "Cache-Control", "no-cache"),
        "Connection", "keep-alive"),
        "Access-Control-Allow-Origin", "*")

\* The message stream passes to http.Error.
UnsupportedMessage == "server sent events are unsupported"

\* net/http.Error: plain-text headers, the status code, and the message
\* followed by a newline as the body (fmt.Fprintln).
HttpErrorHeaders(h) ==
    SetHeader(SetHeader(h,
        "Content-Type", "text/plain; charset=utf-8"),
        "X-Content-Type-Options", "nosniff")

HttpErrorBody(msg) == << <<"", msg, "\n">> >>

\* A flusher check without its `return`: after http.Error stream goes on to
\* the headers and the loop.
StreamStart_NoReturn ==
    /\ pcMain = "stream"
    /\ pcW = "notstarted"
    /\ IF ~flusherOK
       THEN /\ httpStatus' = StatusInternalServerError
            /\ body' = body \o HttpErrorBody(UnsupportedMessage)
       ELSE UNCHANGED <<httpStatus, body>>
    /\ headerSets' = headerSets + 1
    /\ headers' = SetEventStreamHeaders(IF ~flusherOK THEN HttpErrorHeaders(headers) ELSE headers)
    /\ pcW' = "loop"
    /\ UNCHANGED <<config, canceled, mainVars, ch, taskVars, written, flushes, pushed, logged>>

\* The flusher check: http.Error and return, or the four headers and the loop.
StreamStart ==
    /\ pcMain = "stream"
    /\ pcW = "notstarted"
    /\ IF ~flusherOK
       THEN /\ httpStatus' = StatusInternalServerError
            /\ headers' = HttpErrorHeaders(headers)
            /\ body' = body \o HttpErrorBody(UnsupportedMessage)
            /\ pcW' = "returned"
            /\ UNCHANGED headerSets
       ELSE /\ headerSets' = headerSets + 1
            /\ headers' = SetEventStreamHeaders(headers)
            /\ pcW' = "loop"
            /\ UNCHANGED <<httpStatus, body>>
    /\ UNCHANGED <<config, canceled, mainVars, ch, taskVars, written, flushes, pushed, logged>>

\* A ctx.Done() case that does not clear isStreaming: the loop goes on.
StreamCtxDone_KeepStreaming ==
    /\ pcW = "loop"
    /\ canceled
    /\ UNCHANGED vars

\* A loop that also ends when there is nothing to receive
\* (a `default:` case that clears isStreaming).
StreamCtxDone_OrIdle ==
    /\ pcW = "loop"
    /\ canceled \/ ch = <<>>
    /\ pcW' = "returned"
    /\ UNCHANGED <<config, canceled, mainVars, ch, taskVars, headerSets, httpStatus, written,
                   headers, body, flushes, pushed, logged>>

\* select, case <-ctx.Done(): isStreaming = false; stream returns.
StreamCtxDone ==
    /\ pcW = "loop"
    /\ canceled
    /\ pcW' = "returned"
    /\ UNCHANGED <<config, canceled, mainVars, ch, taskVars, headerSets, httpStatus, written,
                   headers, body, flushes, pushed, logged>>

\* A receive that leaves the received event in the buffer.
Dequeue_Keep(q) == q

\* What a receive leaves in the channel's buffer.
Dequeue(q) == Tail(q)

\* string(e.data): the payload of the event, as text.
EventData(e) == ToString(<<e.src, e.seq>>)

\* A writer that prints the `event:` line for every event, named or not.
WriteRecord_AlwaysEventLine(e) ==
    << <<"event: ", e.name, "\n">>, <<"data: ", EventData(e), "\n\n">> >>

\* The two fmt.Fprintf calls of stream for event e, as the chunks they write.
WriteRecord(e) ==
    (IF e.name # "" THEN << <<"event: ", e.name, "\n">> >> ELSE <<>>)
        \o << <<"data: ", EventData(e), "\n\n">> >>

\* A receive case that sets the response headers for each event it writes.
StreamReceive_HeadersInLoop ==
    /\ pcW = "loop"
    /\ ch # <<>>
    /\ headerSets' = headerSets + 1
    /\ headers' = SetEventStreamHeaders(headers)
    /\ written' = Append(written, Head(ch))
    /\ body' = body \o WriteRecord(Head(ch))
    /\ flushes' = flushes + 1
    /\ ch' = Tail(ch)
    /\ UNCHANGED <<config, canceled, mainVars, taskVars, pcW, httpStatus, pushed, logged>>

\* select, case e := <-ch: the record is written and flushed.
StreamReceive ==
    /\ pcW = "loop"
    /\ ch # <<>>
    /\ written' = Append(written, Head(ch))
    /\ body' = body \o WriteRecord(Head(ch))
    /\ flushes' = flushes + 1
    /\ ch' = Dequeue(ch)
    /\ UNCHANGED <<config, canceled, mainVars, taskVars, pcW, headerSets, httpStatus, headers,
                   pushed, logged>>

Next ==
    \/ Cancel
    \/ ContentStart
    \/ ContentWait
    \/ ContentClose
    \/ \E p \in Tasks : TimerFire(p)
    \/ \E p \in Tasks : TaskNext(p)
    \/ StreamStart
    \/ StreamCtxDone
    \/ StreamReceive

Spec == Init /\ [][Next]_vars

\* The sessions of the fair specification: a valid configuration, a sink
\* that can flush, and generators drawn from one run-once and one periodic
\* variant, listed run-once first (the goroutines do not depend on the order
\* of the slice).
IsRunOnceContent(g) == g.kind = "content" /\ g.runEvery = 0

FairInit ==
    /\ Init
    /\ ConfigError = "nil"
    /\ flusherOK
    /\ \A i \in 1..Len(eventGenerators.list) :
           /\ IsRunOnceContent(eventGenerators.list[i]) \/ eventGenerators.list[i].kind = "navigation"
           /\ \A j \in 1..i : IsRunOnceContent(eventGenerators.list[i]) => IsRunOnceContent(eventGenerators.list[j])

\* Scheduling assumptions.  Every goroutine that can run does run (the Go
\* scheduler starves no runnable goroutine), a timer that is armed fires,
\* and eg.Generate returns.  A select with several ready cases picks among
\* them uniformly at random, so a case that stays ready is eventually picked:
\* weak fairness of each case.  Senders blocked on a channel are served in
\* arrival order, so a blocked send is not overtaken forever: strong fairness
\* of the send.  Cancellation is the environment's choice and is not fair.
\* The steps of one goroutine that exclude each other share one condition.
TaskSteps(p) == TimerFire(p) \/ TaskTimerC(p) \/ GenerateOk(p) \/ GenerateErr(p)

Fairness ==
    /\ WF_vars(ContentStart \/ StreamStart \/ ContentWait \/ ContentClose)
    /\ WF_vars(StreamCtxDone)
    /\ WF_vars(StreamReceive)
    /\ \A p \in 1..MaxProducers :
           /\ WF_vars(p \in Tasks /\ TaskSteps(p))
           /\ WF_vars(p \in Tasks /\ TaskCtxDone(p))
           /\ SF_vars(p \in Tasks /\ TaskPush(p))

FairSpec == FairInit /\ [][Next]_vars /\ Fairness

TypeOK ==
    /\ canceled \in BOOLEAN
    /\ pcMain \in {"start", "stream", "close", "done"}
    /\ wg \in 0..Len(eventGenerators.list)
    /\ Len(ch) <= QueueCap
    /\ pc \in [Tasks -> {"notstarted", "select", "generating", "push", "terminated"}]
    /\ timer \in [Tasks -> {"armed", "fired", "idle"}]
    /\ pcW \in {"notstarted", "loop", "returned"}

\* ---- helpers of the properties ----

IsPrefix(s, t) == Len(s) <= Len(t) /\ \A i \in 1..Len(s) : s[i] = t[i]

NoDuplicates(s) == \A i, j \in 1..Len(s) : s[i] = s[j] => i = j

\* Number of events of generator p whose send completed.
PushedBy(p) == Cardinality({i \in 1..Len(pushed) : pushed[i].src = p})

\* Goroutine p sits in `ch <- e` on a full buffer and stream, the only
\* receiver, has returned: nothing can ever complete this send.
PushBlockedForever(p) == pc[p] = "push" /\ ~CanSend(ch) /\ pcW = "returned"

\* stream returned through the http.Error branch.
TransportFailed == pcW = "returned" /\ httpStatus = StatusInternalServerError

\* The events a session can generate.
Events == {[src |-> p, seq |-> n, name |-> nm] :
              p \in 1..MaxProducers, n \in 1..MaxGen, nm \in {"", "navigation"}}

Range(s) == {s[i] : i \in 1..Len(s)}

\* Number of events of generator p that were written.
WrittenBy(p) == Cardinality({i \in 1..Len(written) : written[i].src = p})

\* 1 if goroutine p is at one of the positions in S, else 0.
At(p, S) == IF pc[p] \in S THEN 1 ELSE 0

\* ---- C1 ----
\* C1: session shutdown never deadlocks.  Once the token is canceled, content
\* eventually returns; so no reachable state with the token canceled (and a
\* sink that can flush) may be one from which content can never return, i.e.
\* one where stream has returned and a scheduling goroutine is left in a send
\* nobody will receive.
C1_ShutdownNeverDeadlocks ==
    (canceled /\ flusherOK) => \A p \in Tasks : ~PushBlockedForever(p)

\* ---- C2 ----
\* C2: once the token is canceled, a scheduling goroutine suspended in its
\* select or in `ch <- e` can proceed by itself, without stream receiving
\* another event.
C2_CancelUnblocksTasks ==
    \A p \in Tasks :
        (canceled /\ pc[p] \in {"select", "push"}) => ENABLED TaskNext(p)

\* ---- C3 ----
\* C3: a goroutine of a generator with a nonzero interval that waits in its
\* select always has its timer running (armed or fired): after a failed
\* Generate the timer is re-armed exactly as after a successful one.
C3_ErrorRearmsTimer ==
    \A p \in Tasks :
        (pc[p] = "select" /\ RunEvery(p) # 0) => timer[p] \in {"armed", "fired"}

\* ---- C4 ----
\* C4: once the token is canceled, stream writes no further event.
C4_NoWriteAfterCancel ==
    [][canceled => written' = written]_vars

\* ---- C5 ----
\* C5: once the token is canceled, a goroutine waiting in its select starts
\* no further call of Generate, even if its timer has expired.
C5_NoGenerateAfterCancel ==
    [][\A p \in Tasks : (canceled /\ pc[p] = "select") => genCount'[p] = genCount[p]]_vars

\* ---- C6 ----
\* C6: a generator with RunEvery() = 0 is generated at most once, pushes at
\* most one event and none after a failed generation, and its goroutine is
\* Terminated as soon as that first generation (and its push) is over.
C6_RunOnce ==
    \A p \in Tasks :
        RunEvery(p) = 0 =>
            /\ genCount[p] <= 1
            /\ PushedBy(p) <= 1
            /\ (genCount[p] = 1 /\ pc[p] \notin {"generating", "push"})
                   => pc[p] = "terminated"

\* ---- C7 ----
\* C7: after stream has reported that the sink cannot flush, no scheduling
\* goroutine stays blocked pushing into the queue nobody reads (which would
\* keep content in wg.Wait() until, at best, cancellation).
C7_TransportFailureAborts ==
    (TransportFailed /\ ~canceled) => \A p \in Tasks : ~PushBlockedForever(p)

\* ---- C8 ----
\* C8: with no generator (nil or empty slice), no stream function or no
\* logger, content returns a configuration error at once: no goroutine is
\* started and stream is never invoked.
ConfigInvalid ==
    \/ eventGenerators.isNil
    \/ Len(eventGenerators.list) = 0
    \/ ~streamFnSet
    \/ ~loggerSet

C8_ConfigValidation ==
    (ConfigInvalid /\ pcMain # "start") =>
        /\ pcMain = "done"
        /\ result \notin {"none", "nil"}
        /\ pcW = "notstarted"
        /\ \A p \in Tasks : pc[p] = "notstarted"

\* ---- C9 ----
\* C9: the queue is closed at most once, and whenever it is closed stream
\* has returned and every scheduling goroutine is Terminated (so none can
\* send on the closed channel).
C9_CloseAfterAllTerminated ==
    /\ closeCount <= 1
    /\ closeCount > 0 =>
           /\ pcW = "returned"
           /\ wg = 0
           /\ \A p \in Tasks : pc[p] = "terminated"

\* The queue was closed in a session whose goroutines had pushed events.
C9_Witness ==
    /\ closeCount = 1
    /\ Len(eventGenerators.list) = MaxProducers
    /\ \A p \in Tasks : PushedBy(p) >= 1

\* ---- C10 ----
\* C10: the events written are, at every point, a prefix of the events in
\* the order their sends completed, and no event is written twice.
C10_FIFO ==
    /\ IsPrefix(written, pushed)
    /\ NoDuplicates(written)

\* Events of two generators were written interleaved while another pushed
\* event is still waiting in the queue.
C10_Witness ==
    /\ Len(written) >= 3
    /\ written[1].src # written[2].src
    /\ written[2].src # written[3].src
    /\ Len(pushed) > Len(written)

\* ---- C11 ----
\* C11: no event is dropped.  Every successfully generated event is held by
\* its goroutine, buffered in the queue, or written (nothing is discarded or
\* overwritten); and while the token is not canceled and the sink can flush,
\* an event that is held or queued does not stay so: again and again every
\* event generated so far has been written.
NoEventLost ==
    /\ pushed = written \o ch
    /\ \A p \in Tasks :
           /\ genCount[p] = failures[p] + PushedBy(p) + At(p, {"generating", "push"})
           /\ pc[p] = "push" => held[p] = NewEvent(p, genCount[p])

\* No event is waiting: the queue is empty and no goroutine holds an event.
NoEventPending == ch = <<>> /\ \A p \in Tasks : pc[p] # "push"

C11_NoEventDropped ==
    /\ []NoEventLost
    /\ []<>(canceled \/ ~flusherOK \/ NoEventPending)

\* A goroutine waits at the push for the full queue while the events pushed
\* before it have been written, in a session that was not canceled.
C11_Witness ==
    /\ ~canceled
    /\ flusherOK
    /\ Len(written) >= 2
    /\ ~CanSend(ch)
    /\ \E p \in Tasks : pc[p] = "push" /\ genCount[p] = MaxGen
\* ---- C12 ----
\* C12: producer isolation.  A generator none of whose Generate calls has
\* succeeded never occupies the queue or a pending push; and in a session
\* that is not canceled, where generator p has only ever failed and generator
\* q, with a nonzero interval, has never failed, the events of all of q's
\* ticks get written.
OnlyFailed(p) == failures[p] = genCount[p] - At(p, {"generating"})

FailingHoldsNothing ==
    \A p \in Tasks :
        OnlyFailed(p) =>
            /\ pc[p] # "push"
            /\ PushedBy(p) = 0
            /\ \A i \in 1..Len(ch) : ch[i].src # p

C12_ProducerIsolation ==
    /\ []FailingHoldsNothing
    /\ <>(\/ canceled
          \/ \A p, q \in Tasks :
                 (/\ p # q
                  /\ OnlyFailed(p)
                  /\ RunEvery(q) # 0
                  /\ failures[q] = 0) => WrittenBy(q) = MaxGen)

\* Generator p failed and pushed nothing while every event of the healthy
\* periodic generator q was written; the session is still running.
C12_Witness ==
    /\ ~canceled
    /\ pcW = "loop"
    /\ \E p, q \in Tasks :
           /\ failures[p] >= 1
           /\ OnlyFailed(p)
           /\ RunEvery(q) # 0
           /\ failures[q] = 0
           /\ WrittenBy(q) = MaxGen
\* ---- C13 ----
\* C13 as stated: with a sink that cannot flush, stream writes zero bytes of
\* body, never enters its loop, takes no event from the queue and writes no
\* event record and no event-stream header.
C13_UnsupportedWritesNothing ==
    ~flusherOK =>
        /\ body = <<>>
        /\ pcW # "loop"
        /\ written = <<>>
        /\ pushed = ch
        /\ headerSets = 0

\* C13 as amended: with a sink that cannot flush, stream answers through
\* http.Error with status 500, and the only body written is the error message
\* and its newline; it never enters its loop, takes no event from the queue,
\* writes and flushes no event record and sets no event-stream header.
C13_UnsupportedWritesOnlyError ==
    ~flusherOK =>
        /\ pcW # "loop"
        /\ written = <<>>
        /\ flushes = 0
        /\ pushed = ch
        /\ headerSets = 0
        /\ <<"Content-Type", "text/event-stream">> \notin headers
        /\ IF pcW = "returned"
           THEN /\ httpStatus = 500
                /\ body = << <<"", "server sent events are unsupported", "\n">> >>
           ELSE /\ httpStatus = 0
                /\ body = <<>>

\* stream has returned through http.Error while an event was waiting in the
\* queue, and the event is still there.
C13_Witness ==
    /\ ~flusherOK
    /\ pcW = "returned"
    /\ ch # <<>>
\* ---- C14 ----
\* The four headers of an event stream, as the response must carry them.
ExpectedHeaders ==
    {<<"Content-Type", "text/event-stream">>,
     <<"Cache-Control", "no-cache">>,
     <<"Connection", "keep-alive">>,
     <<"Access-Control-Allow-Origin", "*">>}

\* C14 as stated: in every execution of stream the event-stream headers are
\* set exactly once (never twice; once stream is past its first step they
\* have been set), and they are set before any record is written.
C14_HeadersOnceInEveryExecution ==
    /\ headerSets <= 1
    /\ pcW \in {"loop", "returned"} => headerSets = 1
    /\ written # <<>> => headerSets = 1

\* C14 as amended: in every execution of stream on a sink that can flush the
\* four headers are set exactly once, before the first record is written,
\* and no header is set after a record has been written; on a sink that
\* cannot flush they are never set.
HeadersOnce ==
    /\ headerSets <= 1
    /\ (flusherOK /\ pcW \in {"loop", "returned"}) => (headerSets = 1 /\ headers = ExpectedHeaders)
    /\ ~flusherOK => headerSets = 0
    /\ written # <<>> => headerSets = 1

C14_HeadersOnceBeforeBody ==
    /\ []HeadersOnce
    /\ [][written # <<>> => (headers' = headers /\ headerSets' = headerSets)]_vars

\* Several records have been written after the headers were set once.
C14_Witness ==
    /\ flusherOK
    /\ headerSets = 1
    /\ Len(written) >= 2
\* ---- C15 ----
\* The record of event e in the wire format: an `event:` line only for a
\* non-empty name, then the `data:` line and the blank line.
ExpectedRecord(e) ==
    IF e.name = ""
    THEN << <<"data: ", EventData(e), "\n\n">> >>
    ELSE << <<"event: ", e.name, "\n">>, <<"data: ", EventData(e), "\n\n">> >>

RECURSIVE ExpectedBody(_)
ExpectedBody(evs) ==
    IF evs = <<>> THEN <<>> ELSE ExpectedRecord(Head(evs)) \o ExpectedBody(Tail(evs))

\* C15: the body written for the events written so far is exactly their
\* records in the wire format, in order, and there has been one flush per
\* record (each record is flushed in the step that received its event, before
\* the next receive).
C15_WireEncoding ==
    flusherOK =>
        /\ body = ExpectedBody(written)
        /\ flushes = Len(written)

\* A named and an unnamed event have both been written.
C15_Witness ==
    /\ \E i \in 1..Len(written) : written[i].name = "navigation"
    /\ \E i \in 1..Len(written) : written[i].name = ""
    /\ Len(body) >= 3
\* ---- C16 ----
\* C16: when content has returned, its result is nil if generators, stream
\* function and logger are all configured, whatever failed meanwhile; a
\* non-nil result is one of the three configuration errors, returned for the
\* part of the configuration that is missing.
C16_OnlyConfigErrors ==
    pcMain = "done" =>
        /\ (~eventGenerators.isNil /\ streamFnSet /\ loggerSet) => result = "nil"
        /\ result # "nil" =>
               \/ result = "event generators are not configured" /\ eventGenerators.isNil
               \/ result = "stream function is not configured" /\ ~streamFnSet
               \/ result = "logger is not configured" /\ ~loggerSet

\* content returned nil from a session in which a generation failed and
\* the sink could not flush.
C16_Witness ==
    /\ pcMain = "done"
    /\ result = "nil"
    /\ logged >= 1
    /\ ~flusherOK
\* ---- C17 ----
\* C17: under fair scheduling, once the token is canceled a running stream
\* eventually returns, whatever the goroutines keep putting in the queue.
C17_WriterStopsAfterCancel ==
    (canceled /\ pcMain = "stream") ~> (pcW = "returned")

\* stream has returned after cancellation with an event left in the queue
\* and a goroutine holding the next one.
C17_Witness ==
    /\ canceled
    /\ flusherOK
    /\ pcW = "returned"
    /\ ch # <<>>
    /\ \E p \in Tasks : pc[p] = "push"
\* ---- C18 ----
\* C18: with a valid configuration and a sink that can flush, stream does
\* not return and content does not get past the call of streamFn before the
\* token is canceled.
C18_BlocksUntilCancel ==
    (ConfigError = "nil" /\ flusherOK) =>
        /\ pcW = "returned" => canceled
        /\ pcMain \in {"close", "done"} => canceled

\* Every goroutine is Terminated, every event is written and the queue is
\* empty, the token is not canceled, and stream is still in its loop.
C18_Witness ==
    /\ ConfigError = "nil"
    /\ flusherOK
    /\ ~canceled
    /\ Len(eventGenerators.list) = MaxProducers
    /\ \A p \in Tasks : pc[p] = "terminated"
    /\ ch = <<>>
    /\ Len(written) = MaxProducers
    /\ pcW = "loop"
    /\ pcMain = "stream"
\* ---- C19 ----
\* C19: the cycles of one generator do not overlap and keep their order.  A
\* goroutine in Generate or at the push works on its latest cycle only, all
\* its earlier cycles having ended in a completed push or in an error skip;
\* a new call of Generate starts only from the select, with no push pending;
\* and the written events of one generator appear in the order generated.
OneCycleAtATime ==
    \A p \in Tasks :
        /\ failures[p] + PushedBy(p) = genCount[p] - At(p, {"generating", "push"})
        /\ pc[p] = "push" => (held[p].src = p /\ held[p].seq = genCount[p])
        /\ pc[p] # "push" => held[p] = NoEvent

WrittenInGenerationOrder ==
    \A i, j \in 1..Len(written) :
        (i < j /\ written[i].src = written[j].src) => written[i].seq < written[j].seq

C19_NoOverlapInOrder ==
    /\ [](OneCycleAtATime /\ WrittenInGenerationOrder)
    /\ [][\A p \in Tasks :
             genCount'[p] # genCount[p] =>
                 /\ pc[p] = "select"
                 /\ genCount'[p] = genCount[p] + 1
                 /\ failures[p] + PushedBy(p) = genCount[p]]_vars

\* All events of one periodic generator have been written, among events of
\* another generator.
C19_Witness ==
    \E p \in Tasks :
        /\ WrittenBy(p) = MaxGen
        /\ Len(written) > MaxGen
\* ---- C20 ----
\* Events generated successfully by the goroutines in S, in total.
RECURSIVE GeneratedOk(_)
GeneratedOk(S) ==
    IF S = {} THEN 0
    ELSE LET p == CHOOSE x \in S : TRUE
         IN  genCount[p] - failures[p] - At(p, {"generating"}) + GeneratedOk(S \ {p})

====
